---- MODULE Spec2Model ----
(***************************************************************************)
(* State-machine model of src/df.rs (arrow-util DataFrame): a vector of    *)
(* fields, a vector of series (arrow arrays) and a row count, with the     *)
(* constructors, column mutations, coercions, slicing, ordering and the    *)
(* IPC block encode / decode of the source.                                *)
(***************************************************************************)
EXTENDS Integers, Sequences, FiniteSets, TLC

VARIABLES fields, data, rows, res, call, out, sent, stream, pos, pc

vars == <<fields, data, rows, res, call, out, sent, stream, pos, pc>>

(***************************************************************************)
(* Bounds of the model.                                                    *)
(***************************************************************************)
\* most columns / fields a table of the mutation model holds
MaxCols == 2
\* longest series of the mutation model
MaxRows == 2
\* usize is modelled as the integers modulo WordMod
WordMod == 4
\* most columns of a table of the ordering model
MaxOrderCols == 5
\* longest names list handed to set_ordering
MaxNames == 3
\* most reader states of a foreign IPC stream
MaxBlocks == 2

(***************************************************************************)
(* Values: a cell of an array is null, a string, an i64 or an f64 (held    *)
(* in tenths), or the content of memory outside the array's buffer.        *)
(***************************************************************************)
Null == [k |-> "null", s |-> "", n |-> 0]
Str(s) == [k |-> "str", s |-> s, n |-> 0]
I64(n) == [k |-> "i64", s |-> "", n |-> n]
F64(tenths) == [k |-> "f64", s |-> "", n |-> tenths]
Garbage == [k |-> "garbage", s |-> "", n |-> 0]

\* arrow2 Field::new(name, data_type, is_nullable)
Field(name, data_type, is_nullable) ==
    [name |-> name, data_type |-> data_type, is_nullable |-> is_nullable]

\* A boxed arrow2 array: its concrete array type (named by the DataType the
\* array reports: Utf8 = Utf8Array<i32>, LargeUtf8 = Utf8Array<i64>,
\* Int64 = Int64Array, Float64 = Float64Array) and its values.
Series(data_type, values) == [data_type |-> data_type, values |-> values]

NoSeries == Series("", <<>>)

SeriesLen(series) == Len(series.values)

\* The DataFrame struct
DataFrame(f, d, r) == [fields |-> f, data |-> d, rows |-> r]

Self == DataFrame(fields, data, rows)

\* #[derive(Default)]
Default == DataFrame(<<>>, <<>>, 0)

NoMetadata == {}

NoOut == [fields |-> <<>>, data |-> <<>>, rows |-> 0, metadata |-> NoMetadata]

NoStream == [header_ok |-> TRUE, fields |-> <<>>, metadata |-> NoMetadata, blocks |-> <<>>]

\* The outcome of a method: the frame it leaves, its result and return value
Outcome(df, r, o) ==
    [fields |-> df.fields, data |-> df.data, rows |-> df.rows, res |-> r, out |-> o]

Ok(df) == Outcome(df, "Ok", NoOut)

Err(df, e) == Outcome(df, e, NoOut)

\* A panic unwinds with the frame as the method left it
Panic(df) == Outcome(df, "Panic", NoOut)

(***************************************************************************)
(* Input pools.                                                            *)
(***************************************************************************)
Names == {"a", "b"}

ArrayTypes == {"Utf8", "LargeUtf8", "Int64"}

DataTypes == {"Utf8", "LargeUtf8", "Int64", "Float64"}

TextSample == <<Str("1"), Str("x"), Null, Str("1.5")>>

IntSample == <<I64(7), Null, I64(9), I64(8)>>

SampleCell(data_type, i) ==
    IF data_type = "Int64" THEN IntSample[((i - 1) % 4) + 1]
    ELSE TextSample[((i - 1) % 4) + 1]

\* the sample array of a type with n rows, starting at sample cell `from`
SampleSeries(data_type, n, from) ==
    Series(data_type, [i \in 1..n |-> SampleCell(data_type, i + from)])

RECURSIVE SeqsUpTo(_, _)
SeqsUpTo(S, n) ==
    IF n = 0 THEN {<<>>}
    ELSE LET shorter == SeqsUpTo(S, n - 1)
         IN shorter \cup {Append(q, x) : q \in {p \in shorter : Len(p) = n - 1}, x \in S}

(***************************************************************************)
(* Constructors.                                                           *)
(***************************************************************************)
\* DataFrame::new(rows, cols): no columns yet; cols is a capacity hint only
new(r) == Ok(DataFrame(<<>>, <<>>, r))

\* data.first().map_or(0, |v| v.len())
first_len(d) == IF d = <<>> THEN 0 ELSE SeriesLen(d[1])

\* DataFrame::from_chunk(chunk, schema): the arrays of a Chunk all have one
\* length (Chunk::new refuses anything else); the schema is taken as it is
from_chunk(d, f) == Ok(DataFrame(f, d, first_len(d)))

\* DataFrame::from_parts(fields, data): only the series' lengths are compared
from_parts(f, d) ==
    IF \E i \in 2..Len(d) : SeriesLen(d[i]) # SeriesLen(d[1])
    THEN Err(Default, "RowsNotMatch")
    ELSE Ok(DataFrame(f, d, first_len(d)))

(***************************************************************************)
(* Column mutation.                                                        *)
(***************************************************************************)
\* Vec::insert(index, x), index 0-based
VecInsert(v, index, x) ==
    SubSeq(v, 1, index) \o <<x>> \o SubSeq(v, index + 1, Len(v))

\* Vec::remove(index), index 0-based and in range
VecRemove(v, index) ==
    SubSeq(v, 1, index) \o SubSeq(v, index + 2, Len(v))

\* slice::swap(i, j), 0-based and in range
VecSwap(v, i, j) ==
    [v EXCEPT ![i + 1] = v[j + 1], ![j + 1] = v[i + 1]]

\* add_series without the comparison of series.len() with rows
add_series_unchecked(df, name, series, data_type) ==
    Ok(DataFrame(Append(df.fields, Field(name, data_type, TRUE)),
                 Append(df.data, series), df.rows))

\* add_series pushing Field::new(name, data_type, false)
add_series_not_nullable(df, name, series, data_type) ==
    IF SeriesLen(series) = df.rows
    THEN Ok(DataFrame(Append(df.fields, Field(name, data_type, FALSE)),
                      Append(df.data, series), df.rows))
    ELSE Err(df, "RowsNotMatch")

\* DataFrame::add_series
add_series(df, name, series, data_type) ==
    IF SeriesLen(series) = df.rows
    THEN Ok(DataFrame(Append(df.fields, Field(name, data_type, TRUE)),
                      Append(df.data, series), df.rows))
    ELSE Err(df, "RowsNotMatch")

\* DataFrame::add_series0
add_series0(df, name, series) == add_series(df, name, series, series.data_type)

\* DataFrame::insert_series: Vec::insert panics past the vector's end
insert_series(df, name, series, index, data_type) ==
    IF index <= Len(df.data)
    THEN IF SeriesLen(series) = df.rows
         THEN IF index > Len(df.fields)
              THEN Panic(df)
              ELSE Ok(DataFrame(VecInsert(df.fields, index, Field(name, data_type, TRUE)),
                                VecInsert(df.data, index, series), df.rows))
         ELSE Err(df, "RowsNotMatch")
    ELSE Err(df, "OutOfBounds")

\* DataFrame::get_column_index: the first match, as Some(pos) = pos, None = -1
get_column_index(f, name) ==
    IF \E i \in 1..Len(f) : f[i].name = name
    THEN (CHOOSE i \in 1..Len(f) :
              /\ f[i].name = name
              /\ \A j \in 1..(i - 1) : f[j].name # name) - 1
    ELSE -1

\* fields.remove(pos), then data.remove(pos), which panics past data's end
remove_at(df, index) ==
    LET f == VecRemove(df.fields, index)
    IN IF index >= Len(df.data)
       THEN Panic(DataFrame(f, df.data, df.rows))
       ELSE Ok(DataFrame(f, VecRemove(df.data, index), df.rows))

\* DataFrame::pop_series
pop_series(df, name) ==
    LET p == get_column_index(df.fields, name)
    IN IF p >= 0 THEN remove_at(df, p) ELSE Err(df, "NotFound")

\* DataFrame::pop_series_at
pop_series_at(df, index) ==
    IF index < Len(df.fields) THEN remove_at(df, index) ELSE Err(df, "OutOfBounds")

\* DataFrame::set_name_at
set_name_at(df, index, new_name) ==
    IF index < Len(df.fields)
    THEN Ok([df EXCEPT !.fields[index + 1].name = new_name])
    ELSE Err(df, "OutOfBounds")

\* DataFrame::rename: the first field of that name
rename(df, name, new_name) ==
    LET p == get_column_index(df.fields, name)
    IN IF p >= 0 THEN set_name_at(df, p, new_name) ELSE Err(df, "NotFound")

\* DataFrame::set_data_type_at: the field's tag only, the series is not looked at
set_data_type_at(df, index, data_type) ==
    IF index < Len(df.fields)
    THEN Ok([df EXCEPT !.fields[index + 1].data_type = data_type])
    ELSE Err(df, "OutOfBounds")

\* DataFrame::set_data_type
set_data_type(df, name, data_type) ==
    LET p == get_column_index(df.fields, name)
    IN IF p >= 0 THEN set_data_type_at(df, p, data_type) ELSE Err(df, "NotFound")

(***************************************************************************)
(* Coercion.                                                               *)
(***************************************************************************)
\* str::parse::<i64>() / str::parse::<f64>() on the sample strings, .ok()
parse(target, cell) ==
    IF cell.k # "str" THEN Null
    ELSE IF target = "Int64"
         THEN (IF cell.s = "1" THEN I64(1) ELSE Null)
         ELSE (IF cell.s = "1" THEN F64(10)
               ELSE IF cell.s = "1.5" THEN F64(15) ELSE Null)

\* as_any().downcast_ref::<Utf8Array<i64>>()
downcast_ref(series) == series.data_type = "LargeUtf8"

downcast_any_text(series) == series.data_type \in {"Utf8", "LargeUtf8"}

\* macro convert!: data[index] is replaced, then fields[index] is written
convert(df, index, target) ==
    IF index < Len(df.data)
    THEN LET series == df.data[index + 1]
             parsed == Series(target,
                              [i \in 1..SeriesLen(series) |-> parse(target, series.values[i])])
             d == [df.data EXCEPT ![index + 1] = parsed]
         IN IF ~downcast_ref(series)
            THEN Err(df, "TypeMismatch")
            ELSE IF index >= Len(df.fields)
                 THEN Panic(DataFrame(df.fields, d, df.rows))
                 ELSE Ok(DataFrame([df.fields EXCEPT ![index + 1].data_type = target],
                                   d, df.rows))
    ELSE Err(df, "OutOfBounds")

\* DataFrame::parse_int_at
parse_int_at(df, index) == convert(df, index, "Int64")

\* DataFrame::parse_float_at
parse_float_at(df, index) == convert(df, index, "Float64")

\* DataFrame::parse_int
parse_int(df, name) ==
    LET p == get_column_index(df.fields, name)
    IN IF p >= 0 THEN parse_int_at(df, p) ELSE Err(df, "NotFound")

\* DataFrame::parse_float
parse_float(df, name) ==
    LET p == get_column_index(df.fields, name)
    IN IF p >= 0 THEN parse_float_at(df, p) ELSE Err(df, "NotFound")

(***************************************************************************)
(* Slicing.  offset + length is a usize addition: with overflow checks     *)
(* (debug builds) an overflowing sum panics, without them it wraps.        *)
(***************************************************************************)
Usize == 0..(WordMod - 1)

wrapping_add(a, b) == (a + b) % WordMod

overflows(a, b) == a + b >= WordMod

\* Array::sliced(offset, length) once its bounds assertion has passed: the
\* array reports `length` rows; rows past the buffer are whatever memory holds
sliced(series, offset, length) ==
    Series(series.data_type,
           [i \in 1..length |->
               IF offset + i <= SeriesLen(series) THEN series.values[offset + i]
               ELSE Garbage])

\* the bounds test and the map shared by try_series_sliced and try_sliced
slice_all(df, offset, length, overflow_checks, f, r) ==
    IF overflows(offset, length) /\ overflow_checks
    THEN Panic(df)
    ELSE IF wrapping_add(offset, length) <= df.rows
         THEN IF \E i \in 1..Len(df.data) :
                     wrapping_add(offset, length) > SeriesLen(df.data[i])
              THEN Panic(df)
              ELSE Outcome(df, "Ok",
                           [fields |-> f,
                            data |-> [i \in 1..Len(df.data) |->
                                         sliced(df.data[i], offset, length)],
                            rows |-> r, metadata |-> NoMetadata])
         ELSE Err(df, "OutOfBounds")

\* DataFrame::try_series_sliced: the sliced series alone
try_series_sliced(df, offset, length, overflow_checks) ==
    slice_all(df, offset, length, overflow_checks, <<>>, 0)

\* DataFrame::try_sliced: a new frame, rows: length, the fields cloned
try_sliced(df, offset, length, overflow_checks) ==
    slice_all(df, offset, length, overflow_checks, df.fields, length)

(***************************************************************************)
(* Ordering.                                                               *)
(***************************************************************************)
\* the byte order of the names in use (String's Ord)
Alphabet == <<"a", "b", "c", "z">>

Rank(name) == CHOOSE i \in 1..Len(Alphabet) : Alphabet[i] = name

\* the loop of set_ordering from names[i] on (i 0-based): fields.swap(i, pos)
\* panics when i is past the fields, data.swap(i, pos) when i or pos is past
\* the data, the fields being swapped already
RECURSIVE set_ordering_from(_, _, _)
set_ordering_from(df, names, i) ==
    IF i >= Len(names) THEN Ok(df)
    ELSE LET p == get_column_index(df.fields, names[i + 1])
         IN IF p < 0 \/ p = i THEN set_ordering_from(df, names, i + 1)
            ELSE IF i >= Len(df.fields) THEN Panic(df)
            ELSE LET f == VecSwap(df.fields, i, p)
                 IN IF i >= Len(df.data) \/ p >= Len(df.data)
                    THEN Panic(DataFrame(f, df.data, df.rows))
                    ELSE set_ordering_from(
                             DataFrame(f, VecSwap(df.data, i, p), df.rows), names, i + 1)

\* DataFrame::set_ordering
set_ordering(df, names) == set_ordering_from(df, names, 0)

\* names.sort(): insertion of x into a sorted sequence
sort_insert(sorted, x) ==
    LET k == Cardinality({i \in 1..Len(sorted) : Rank(sorted[i]) <= Rank(x)})
    IN SubSeq(sorted, 1, k) \o <<x>> \o SubSeq(sorted, k + 1, Len(sorted))

RECURSIVE sort(_)
sort(names) ==
    IF names = <<>> THEN <<>>
    ELSE sort_insert(sort(SubSeq(names, 1, Len(names) - 1)), names[Len(names)])

\* DataFrame::names
names_of(f) == [i \in 1..Len(f) |-> f[i].name]

\* DataFrame::sort_columns
sort_columns(df) == set_ordering(df, sort(names_of(df.fields)))

(***************************************************************************)
(* IPC block.  A block is the stream a StreamWriter wrote: the schema      *)
(* message (fields + metadata) and the messages after it, as the           *)
(* StreamReader meets them: "waiting" (not a whole message yet), "batch"   *)
(* (a record batch: one encoded array per column) or "corrupt".            *)
(***************************************************************************)
Block(header_ok, f, metadata, blocks) ==
    [header_ok |-> header_ok, fields |-> f, metadata |-> metadata, blocks |-> blocks]

Message(kind, arrays) == [kind |-> kind, arrays |-> arrays]

\* the writer encodes an array by the array's own type
encode(series) == [layout |-> series.data_type, values |-> series.values]

\* DataFrame::into_ipc_block: start(schema), write(chunk), finish()
into_ipc_block(df) ==
    Block(TRUE, df.fields, NoMetadata,
          <<Message("batch", [i \in 1..Len(df.data) |-> encode(df.data[i])])>>)

\* the reader decodes a batch by the schema's fields: a field with no array
\* left is an error, and so are arrays of unequal lengths (Chunk::try_new); an
\* array encoded as another type than the field's is an error or, when the
\* buffers happen to fit (lenient), an array of the field's type over the
\* wrong bytes
decode_array(field, enc) ==
    IF enc.layout = field.data_type THEN Series(field.data_type, enc.values)
    ELSE Series(field.data_type, [i \in 1..Len(enc.values) |-> Garbage])

\* StreamState yielded by the reader's p-th next() (p 1-based), None at the end
reader_next(block, p, lenient) ==
    IF p > Len(block.blocks) THEN Message("None", <<>>)
    ELSE LET m == block.blocks[p]
             f == block.fields
         IN IF m.kind = "waiting" THEN Message("Waiting", <<>>)
            ELSE IF m.kind = "corrupt" THEN Message("Err", <<>>)
            ELSE IF Len(m.arrays) < Len(f) THEN Message("Err", <<>>)
            ELSE IF \E i \in 1..Len(f) : Len(m.arrays[i].values) # Len(m.arrays[1].values)
                 THEN Message("Err", <<>>)
            ELSE IF ~lenient /\ \E i \in 1..Len(f) : m.arrays[i].layout # f[i].data_type
                 THEN Message("Err", <<>>)
                 ELSE Message("Some", [i \in 1..Len(f) |-> decode_array(f[i], m.arrays[i])])

Step(next_pc, next_pos, outcome) == [pc |-> next_pc, pos |-> next_pos, outcome |-> outcome]

WithMetadata(df, metadata) ==
    Outcome(df, "Ok", [fields |-> <<>>, data |-> <<>>, rows |-> 0, metadata |-> metadata])

\* from_ipc_block ending with Self { fields, .. } instead of DataFrame::new0(0)
on_state_keep_fields(block, p, state) ==
    IF state.kind = "Waiting" THEN Step("reading", p + 1, Err(Default, ""))
    ELSE IF state.kind = "Err" THEN Step("returned", p, Err(Default, "ArrowError"))
    ELSE IF state.kind = "Some"
         THEN Step("returned", p,
                   WithMetadata(DataFrame(block.fields, state.arrays, first_len(state.arrays)),
                                block.metadata))
         ELSE Step("returned", p, WithMetadata(DataFrame(block.fields, <<>>, 0), block.metadata))

\* one turn of the loop of DataFrame::from_ipc_block over the reader's states
on_state(block, p, state) ==
    IF state.kind = "Waiting" THEN Step("reading", p + 1, Err(Default, ""))
    ELSE IF state.kind = "Err" THEN Step("returned", p, Err(Default, "ArrowError"))
    ELSE IF state.kind = "Some"
         THEN Step("returned", p,
                   WithMetadata(DataFrame(block.fields, state.arrays, first_len(state.arrays)),
                                block.metadata))
         ELSE Step("returned", p, WithMetadata(Default, block.metadata))

(***************************************************************************)
(* The state machine: one action per public method.  fields, data, rows    *)
(* are the frame; while pc = "returned", call is the method that returned, *)
(* res its result and out the value it returned.  A panic ends the run.    *)
(***************************************************************************)
\* no frame was made yet: the constructors are associated functions
Fresh == pc = "start"

\* a frame is at rest and a method can be called on it
Idle == pc = "idle"

Commit(o, op) ==
    /\ fields' = o.fields
    /\ data' = o.data
    /\ rows' = o.rows
    /\ res' = o.res
    /\ out' = o.out
    /\ call' = op
    /\ pc' = "returned"
    /\ UNCHANGED <<sent, stream, pos>>

Init ==
    /\ fields = <<>>
    /\ data = <<>>
    /\ rows = 0
    /\ res = ""
    /\ call = ""
    /\ out = NoOut
    /\ sent = Default
    /\ stream = NoStream
    /\ pos = 0
    /\ pc = "start"

\* the caller takes the result and goes on with the frame
Continue ==
    /\ pc = "returned"
    /\ res # "Panic"
    /\ pc' = "idle"
    /\ call' = ""
    /\ res' = ""
    /\ out' = NoOut
    /\ sent' = Default
    /\ stream' = NoStream
    /\ pos' = 0
    /\ UNCHANGED <<fields, data, rows>>

New(r) == Fresh /\ Commit(new(r), "new")

FromParts(f, d) == Fresh /\ Commit(from_parts(f, d), "from_parts")

FromChunk(d, f) == Fresh /\ Commit(from_chunk(d, f), "from_chunk")

AddSeries(name, series, data_type) ==
    Idle /\ Commit(add_series(Self, name, series, data_type), "add_series")

AddSeries0(name, series) ==
    Idle /\ Commit(add_series0(Self, name, series), "add_series0")

InsertSeries(name, series, index, data_type) ==
    Idle /\ Commit(insert_series(Self, name, series, index, data_type), "insert_series")

PopSeries(name) == Idle /\ Commit(pop_series(Self, name), "pop_series")

PopSeriesAt(index) == Idle /\ Commit(pop_series_at(Self, index), "pop_series_at")

Rename(name, new_name) == Idle /\ Commit(rename(Self, name, new_name), "rename")

SetNameAt(index, new_name) ==
    Idle /\ Commit(set_name_at(Self, index, new_name), "set_name_at")

SetDataType(name, data_type) ==
    Idle /\ Commit(set_data_type(Self, name, data_type), "set_data_type")

SetDataTypeAt(index, data_type) ==
    Idle /\ Commit(set_data_type_at(Self, index, data_type), "set_data_type_at")

ParseInt(name) == Idle /\ Commit(parse_int(Self, name), "parse_int")

ParseFloat(name) == Idle /\ Commit(parse_float(Self, name), "parse_float")

ParseIntAt(index) == Idle /\ Commit(parse_int_at(Self, index), "parse_int_at")

ParseFloatAt(index) == Idle /\ Commit(parse_float_at(Self, index), "parse_float_at")

TrySeriesSliced(offset, length, overflow_checks) ==
    Idle /\ Commit(try_series_sliced(Self, offset, length, overflow_checks),
                   "try_series_sliced")

TrySliced(offset, length, overflow_checks) ==
    Idle /\ Commit(try_sliced(Self, offset, length, overflow_checks), "try_sliced")

SetOrdering(names) == Idle /\ Commit(set_ordering(Self, names), "set_ordering")

SortColumns == Idle /\ Commit(sort_columns(Self), "sort_columns")

(***************************************************************************)
(* The IPC model: a frame is encoded into a block and the block decoded,   *)
(* or a block from elsewhere is decoded; from_ipc_block takes one step per *)
(* reader state.  sent is the frame into_ipc_block consumed.               *)
(***************************************************************************)
\* Chunk::new panics on arrays of unequal lengths
IntoIpcBlock ==
    /\ Idle
    /\ sent' = Self
    /\ fields' = <<>>
    /\ data' = <<>>
    /\ rows' = 0
    /\ call' = "into_ipc_block"
    /\ out' = NoOut
    /\ pos' = 0
    /\ IF \E i \in 2..Len(data) : SeriesLen(data[i]) # SeriesLen(data[1])
       THEN res' = "Panic" /\ pc' = "returned" /\ stream' = NoStream
       ELSE res' = "Ok" /\ pc' = "encoded" /\ stream' = into_ipc_block(Self)

\* from_ipc_block(block) up to the loop: read_stream_metadata(&mut buf)?
ReadStreamMetadata(block) ==
    /\ stream' = block
    /\ fields' = <<>>
    /\ data' = <<>>
    /\ rows' = 0
    /\ call' = "from_ipc_block"
    /\ out' = NoOut
    /\ IF block.header_ok
       THEN res' = "" /\ pc' = "reading" /\ pos' = 1
       ELSE res' = "ArrowError" /\ pc' = "returned" /\ pos' = 0

\* the block just encoded is decoded
DecodeSent == pc = "encoded" /\ ReadStreamMetadata(stream) /\ UNCHANGED sent

\* a block from elsewhere is decoded
DecodeForeign(block) == Fresh /\ ReadStreamMetadata(block) /\ UNCHANGED sent

\* one turn of `for state in reader`
Turn(state) ==
    LET nx == on_state(stream, pos, state)
    IN /\ pc' = nx.pc
       /\ pos' = nx.pos
       /\ fields' = nx.outcome.fields
       /\ data' = nx.outcome.data
       /\ rows' = nx.outcome.rows
       /\ res' = nx.outcome.res
       /\ out' = nx.outcome.out
       /\ UNCHANGED <<call, sent, stream>>

StateWaiting ==
    /\ pc = "reading"
    /\ reader_next(stream, pos, FALSE).kind = "Waiting"
    /\ Turn(reader_next(stream, pos, FALSE))

StateSome(lenient) ==
    /\ pc = "reading"
    /\ reader_next(stream, pos, lenient).kind = "Some"
    /\ Turn(reader_next(stream, pos, lenient))

StateErr(lenient) ==
    /\ pc = "reading"
    /\ reader_next(stream, pos, lenient).kind = "Err"
    /\ Turn(reader_next(stream, pos, lenient))

StreamEnd ==
    /\ pc = "reading"
    /\ reader_next(stream, pos, FALSE).kind = "None"
    /\ Turn(reader_next(stream, pos, FALSE))

\* frames to encode: fields and series that agree, and that do not
IpcFields ==
    SeqsUpTo({Field("a", "LargeUtf8", TRUE), Field("b", "Int64", TRUE),
              Field("c", "Utf8", FALSE)}, 2)

IpcData ==
    UNION {SeqsUpTo({SampleSeries(t, n, 0) : t \in ArrayTypes}, 2) : n \in 0..MaxRows}

\* blocks from elsewhere
MessagePool ==
    {Message("waiting", <<>>), Message("corrupt", <<>>), Message("batch", <<>>),
     Message("batch", <<encode(SampleSeries("LargeUtf8", 2, 0))>>),
     Message("batch", <<encode(SampleSeries("LargeUtf8", 1, 1)),
                        encode(SampleSeries("Int64", 1, 0))>>),
     Message("batch", <<encode(SampleSeries("LargeUtf8", 2, 0)),
                        encode(SampleSeries("Int64", 1, 0))>>)}

StreamPool ==
    {Block(TRUE, f, m, b) :
        f \in {<<>>, <<Field("a", "LargeUtf8", TRUE)>>,
               <<Field("a", "LargeUtf8", TRUE), Field("b", "Int64", TRUE)>>},
        m \in {NoMetadata, {<<"k", "v">>}},
        b \in SeqsUpTo(MessagePool, MaxBlocks)}
    \cup {Block(FALSE, <<>>, NoMetadata, <<>>)}

NextIpc ==
    \/ Continue
    \/ Fresh /\ \E f \in IpcFields, d \in IpcData : FromParts(f, d)
    \/ \E t \in {"Int64", "Float64"} : SetDataTypeAt(0, t)
    \/ IntoIpcBlock
    \/ DecodeSent
    \/ Fresh /\ \E b \in StreamPool : DecodeForeign(b)
    \/ StateWaiting
    \/ \E l \in BOOLEAN : StateSome(l)
    \/ \E l \in BOOLEAN : StateErr(l)
    \/ StreamEnd

SpecIpc == Init /\ [][NextIpc]_vars

(***************************************************************************)
(* The mutation model: every constructor and method, on frames of up to    *)
(* MaxCols columns of text and integer series of up to MaxRows rows.       *)
(***************************************************************************)
\* series of the frame's row count and of one other length
SeriesFor(r) ==
    {SampleSeries("LargeUtf8", n, 0) : n \in {r, (r + 1) % (MaxRows + 1)}}

\* vectors of up to two series of one length, as a Chunk holds them
ChunkPool ==
    UNION {SeqsUpTo({SampleSeries("LargeUtf8", n, 0)}, 2) : n \in 0..MaxRows}
        \cup {<<SampleSeries("Int64", 1, 0)>>}

\* vectors of series handed to from_parts: also of unequal lengths
PartsPool ==
    ChunkPool \cup {<<SampleSeries("Utf8", 2, 0)>>,
                    <<SampleSeries("LargeUtf8", 0, 0), SampleSeries("LargeUtf8", 1, 0)>>,
                    <<SampleSeries("Int64", 1, 0), SampleSeries("LargeUtf8", 0, 0)>>}

FieldPool == {Field("a", "LargeUtf8", TRUE), Field("b", "Int64", TRUE)}

FieldsPool == SeqsUpTo(FieldPool, 2)

\* names asked for: one in use and one no field has
AskNames == {"a", "z"}

Indexes == 0..MaxCols

HasRoom == Len(fields) < MaxCols /\ Len(data) < MaxCols

\* whether the build checks integer overflow matters to an overflowing sum only
Builds(offset, length) == IF overflows(offset, length) THEN BOOLEAN ELSE {FALSE}

Next ==
    \/ Continue
    \/ Fresh /\ \E r \in 0..MaxRows : New(r)
    \/ Fresh /\ \E f \in FieldsPool, d \in PartsPool : FromParts(f, d)
    \/ Fresh /\ \E f \in FieldsPool, d \in ChunkPool : FromChunk(d, f)
    \/ \E s \in SeriesFor(rows) : HasRoom /\ AddSeries("b", s, "Int64")
    \/ \E s \in SeriesFor(rows) : HasRoom /\ AddSeries0("a", s)
    \/ \E s \in SeriesFor(rows), i \in Indexes : HasRoom /\ InsertSeries("b", s, i, s.data_type)
    \/ \E n \in AskNames : PopSeries(n)
    \/ \E i \in Indexes : PopSeriesAt(i)
    \/ \E n \in AskNames : Rename(n, "b")
    \/ \E i \in Indexes : SetNameAt(i, "a")
    \/ \E n \in AskNames : SetDataType(n, "Int64")
    \/ \E i \in Indexes : SetDataTypeAt(i, "Int64")
    \/ \E n \in AskNames : ParseInt(n)
    \/ \E n \in AskNames : ParseFloat(n)
    \/ \E i \in Indexes : ParseIntAt(i)
    \/ \E i \in Indexes : ParseFloatAt(i)
    \/ \E o \in {0, 1}, l \in {0, 1, WordMod - 1} : \E c \in Builds(o, l) :
          TrySeriesSliced(o, l, c)
    \/ \E o \in {0, 1}, l \in {0, 1, WordMod - 1} : \E c \in Builds(o, l) :
          TrySliced(o, l, c)
    \/ \E ns \in {<<"b", "a">>, <<"z", "a">>, <<"a", "a", "b">>} : SetOrdering(ns)
    \/ SortColumns
    \/ Fresh /\ \E b \in StreamPool : DecodeForeign(b)
    \/ StateWaiting
    \/ \E l \in BOOLEAN : StateSome(l)
    \/ \E l \in BOOLEAN : StateErr(l)
    \/ StreamEnd

Spec == Init /\ [][Next]_vars

(***************************************************************************)
(* The ordering model: frames of up to MaxOrderCols columns, each column   *)
(* tagged by its first position, under set_ordering and sort_columns.      *)
(***************************************************************************)
OrderNames == {"a", "b", "c"}

OrderFields == SeqsUpTo({Field(n, "Int64", TRUE) : n \in OrderNames}, MaxOrderCols)

\* k one-row series, the i-th holding i
TagData(k) == [i \in 1..k |-> Series("Int64", <<I64(i)>>)]

NamesLists == SeqsUpTo(OrderNames \cup {"z"}, MaxNames)

NextOrder ==
    \/ Continue
    \/ Fresh /\ \E f \in OrderFields : \E k \in {Len(f), Len(f) - 1} \cap Nat :
          FromParts(f, TagData(k))
    \/ \E ns \in NamesLists : SetOrdering(ns)
    \/ SortColumns

SpecOrder == Init /\ [][NextOrder]_vars

(***************************************************************************)
(* Properties.                                                             *)
(***************************************************************************)
\* the (field, series) pairs of a frame, position by position
Pairs(f, d) == [i \in 1..Len(f) |-> <<f[i], IF i <= Len(d) THEN d[i] ELSE NoSeries>>]

Count(q, x) == Cardinality({i \in 1..Len(q) : q[i] = x})

\* q is a rearrangement of p
IsPermutation(p, q) ==
    /\ Len(p) = Len(q)
    /\ \A i \in 1..Len(p) : Count(q, p[i]) = Count(p, p[i])

PairsPermuted(f0, d0, f1, d1) ==
    /\ Len(d1) = Len(d0)
    /\ IsPermutation(Pairs(f0, d0), Pairs(f1, d1))

FrameUnchanged == fields' = fields /\ data' = data /\ rows' = rows

DistinctNames(f) == \A i, j \in 1..Len(f) : f[i].name = f[j].name => i = j

NonDecreasing(names) == \A i \in 1..(Len(names) - 1) : Rank(names[i]) <= Rank(names[i + 1])

\* C1 (I1): in every frame a constructor made and the mutations left, and in
\* every frame try_sliced returned, there are as many fields as series.
C1_FieldsMatchColumns ==
    /\ Len(fields) = Len(data)
    /\ (call = "try_sliced" /\ res = "Ok") => Len(out.fields) = Len(out.data)

\* C2 (I2): in every frame a constructor made and the mutations, successful
\* or failed, left, and in every frame try_sliced returned, each series has
\* rows() rows.
C2_ColumnsHaveRows ==
    /\ \A i \in 1..Len(data) : SeriesLen(data[i]) = rows
    /\ (call = "try_sliced" /\ res = "Ok") =>
           \A i \in 1..Len(out.data) : SeriesLen(out.data[i]) = out.rows

\* try_sliced cut a two-column frame of two rows down to one row
C2_Witness ==
    /\ call = "try_sliced"
    /\ res = "Ok"
    /\ rows = 2
    /\ Len(data) = 2
    /\ out.rows = 1
    /\ Len(out.data) = 2

\* C3: add_series with a series of rows() rows succeeds and appends one field
\* (the name and type given, nullable) and the series at the end, whatever
\* names the frame has; with any other series it fails RowsNotMatch; either
\* way what the frame held before and rows() stay as they were.
C3_AddSeries ==
    [][\A n \in Names, s \in SeriesFor(rows), t \in DataTypes :
          (call' = "add_series" /\ AddSeries(n, s, t)) =>
              IF SeriesLen(s) = rows
              THEN /\ res' = "Ok"
                   /\ fields' = Append(fields, Field(n, t, TRUE))
                   /\ data' = Append(data, s)
                   /\ rows' = rows
              ELSE res' = "RowsNotMatch" /\ FrameUnchanged]_vars

\* add_series added a second field of a name the frame had already
C3_Witness ==
    /\ call = "add_series"
    /\ res = "Ok"
    /\ Len(fields) = 2
    /\ fields[1].name = fields[2].name
    /\ Len(data) = 2

\* C4: try_sliced(offset, length) returns, when offset + length <= rows(), a
\* frame of `length` rows with the same fields and each series cut to
\* [offset, offset + length), and OutOfBounds whenever the sum, as a number,
\* is above rows(); the frame itself stays as it was.
C4_SliceBounds ==
    [][\A o \in Usize, l \in Usize, c \in BOOLEAN :
          TrySliced(o, l, c) =>
              /\ FrameUnchanged
              /\ IF o + l <= rows
                 THEN /\ res' = "Ok"
                      /\ out'.rows = l
                      /\ out'.fields = fields
                      /\ Len(out'.data) = Len(data)
                      /\ \A i \in 1..Len(data) :
                            out'.data[i].values = SubSeq(data[i].values, o + 1, o + l)
                 ELSE res' = "OutOfBounds"]_vars

\* C6: on a frame with as many fields as series, parse_int_at(i) and
\* parse_float_at(i) fail OutOfBounds past the last column and TypeMismatch
\* on a column that is not text, leaving the frame as it was, and on a text
\* column of either offset width succeed: the column becomes Int64 (Float64)
\* values of the same length, each the parsed number, or null where the
\* element was null or did not parse, and field i is tagged Int64 (Float64).
C6_ParseAnyText ==
    [][\A i \in Indexes, target \in {"Int64", "Float64"} :
          (/\ Len(fields) = Len(data)
           /\ IF target = "Int64" THEN ParseIntAt(i) ELSE ParseFloatAt(i)) =>
              IF i >= Len(data) THEN res' = "OutOfBounds" /\ FrameUnchanged
              ELSE IF ~downcast_any_text(data[i + 1])
                   THEN res' = "TypeMismatch" /\ FrameUnchanged
                   ELSE /\ res' = "Ok"
                        /\ data'[i + 1].data_type = target
                        /\ SeriesLen(data'[i + 1]) = SeriesLen(data[i + 1])
                        /\ \A k \in 1..SeriesLen(data[i + 1]) :
                              data'[i + 1].values[k] = parse(target, data[i + 1].values[k])
                        /\ fields'[i + 1].data_type = target]_vars

\* C5: a frame with at least one series, encoded by into_ipc_block and
\* decoded by from_ipc_block, comes back: the decode succeeds with the same
\* field names and types in order, the same rows(), equal values in every
\* column, and an empty metadata map.
C5_RoundTrip ==
    (pc = "returned" /\ call = "from_ipc_block" /\ sent.data # <<>>
        /\ stream = into_ipc_block(sent)) =>
        /\ res = "Ok"
        /\ [i \in 1..Len(fields) |-> <<fields[i].name, fields[i].data_type>>]
             = [i \in 1..Len(sent.fields) |-> <<sent.fields[i].name, sent.fields[i].data_type>>]
        /\ rows = sent.rows
        /\ [i \in 1..Len(data) |-> data[i].values]
             = [i \in 1..Len(sent.data) |-> sent.data[i].values]
        /\ out.metadata = NoMetadata

\* the position of the first reader state that is not Waiting
FirstReady(block, lenient) ==
    CHOOSE p \in 1..(Len(block.blocks) + 1) :
        /\ reader_next(block, p, lenient).kind # "Waiting"
        /\ \A q \in 1..(p - 1) : reader_next(block, q, lenient).kind = "Waiting"

\* C9: from_ipc_block fails when the stream metadata cannot be read;
\* otherwise it passes the Waiting states and answers at the first state that
\* is not Waiting: a chunk gives the schema's fields with that chunk's arrays
\* (rows() the first array's length, 0 without arrays) and the metadata, the
\* end of the stream gives a frame of no rows and no columns and the
\* metadata, a reader error gives the error and no frame.
C9_DecodeFirstChunk ==
    (pc = "returned" /\ call = "from_ipc_block") =>
        IF ~stream.header_ok THEN res = "ArrowError" /\ Self = Default
        ELSE \E lenient \in BOOLEAN :
                LET state == reader_next(stream, FirstReady(stream, lenient), lenient)
                IN IF state.kind = "Some"
                   THEN /\ res = "Ok"
                        /\ fields = stream.fields
                        /\ data = state.arrays
                        /\ rows = (IF state.arrays = <<>> THEN 0
                                   ELSE Len(state.arrays[1].values))
                        /\ out.metadata = stream.metadata
                   ELSE IF state.kind = "None"
                        THEN /\ res = "Ok"
                             /\ Self = Default
                             /\ out.metadata = stream.metadata
                        ELSE res = "ArrowError" /\ Self = Default

\* a stream of two different chunks was decoded to the first one
C9_Witness ==
    /\ pc = "returned"
    /\ call = "from_ipc_block"
    /\ res = "Ok"
    /\ Len(stream.blocks) = 2
    /\ stream.blocks[1].kind = "batch"
    /\ stream.blocks[2].kind = "batch"
    /\ stream.blocks[1] # stream.blocks[2]
    /\ Len(data) = 1
    /\ rows = 2

\* C7: on a frame of pairwise different names, set_ordering(names) with
\* names that are all present and all different returns with field i named
\* names[i] for every i below len(names), and the (field, series) pairs are
\* those from before, rearranged.
C7_NamedFirst ==
    [][\A ns \in NamesLists :
          (/\ call' = "set_ordering"
           /\ DistinctNames(fields)
           /\ \A i, j \in 1..Len(ns) : ns[i] = ns[j] => i = j
           /\ \A i \in 1..Len(ns) : get_column_index(fields, ns[i]) >= 0
           /\ SetOrdering(ns)) =>
              /\ res' = "Ok"
              /\ \A i \in 1..Len(ns) : fields'[i].name = ns[i]
              /\ PairsPermuted(fields, data, fields', data')]_vars

\* C8: on a frame with as many fields as series, sort_columns returns with
\* names() in non-decreasing order, duplicates included, and the (field,
\* series) pairs are those from before, rearranged.
C8_SortedNames ==
    [][(Len(fields) = Len(data) /\ SortColumns) =>
          /\ res' = "Ok"
          /\ NonDecreasing(names_of(fields'))
          /\ PairsPermuted(fields, data, fields', data')]_vars

\* C10: on a frame with as many fields as series, set_ordering(names)
\* returns for every names list (absent names, repeated names, more names
\* than columns), the pairs are those from before, rearranged, rows() is as
\* before, and nothing moves when no name is present.
C10_OrderingTotal ==
    [][\A ns \in NamesLists :
          (call' = "set_ordering" /\ Len(fields) = Len(data) /\ SetOrdering(ns)) =>
              /\ res' = "Ok"
              /\ rows' = rows
              /\ PairsPermuted(fields, data, fields', data')
              /\ (\A i \in 1..Len(ns) : get_column_index(fields, ns[i]) < 0) =>
                     (fields' = fields /\ data' = data)]_vars

====
